---- MODULE Spec2Model ----
(***************************************************************************)
(* Handler-level model of two MAME drivers:                                *)
(*   - the Data East BSMT2000 sound board   (src/mame/audio/decobsmt.cpp)  *)
(*   - the DJ Boy arcade board              (src/mame/drivers/djboy.cpp)   *)
(* Every memory/port handler of the drivers is one action.  The last       *)
(* handler invoked, its data byte, its offset and its return value are     *)
(* kept in op, arg, offs and ret so that properties can refer to them.     *)
(***************************************************************************)
EXTENDS Integers, Sequences, FiniteSets, TLC

VARIABLES
    \* ---- BSMT sound board (decobsmt_device) ----
    m_bsmt_latch,   \* high byte of the next data word
    m_bsmt_reset,   \* last value of the reset-control register
    m_bsmt_comms,   \* byte from the main board
    bsmt_resets,    \* number of m_bsmt->reset() calls made so far
    chip_log,       \* commands the last handler forwarded to the BSMT chip
    irq_line,       \* M6809_IRQ_LINE of the board's CPU
    firq_line,      \* M6809_FIRQ_LINE of the board's CPU
    reset_w_prev,   \* the value of the previous bsmt_reset_w write (0 after reset)
    \* ---- DJ Boy (djboy_state) ----
    m_videoreg, m_scrollx, m_scrolly,
    m_beast_p0, m_beast_p1, m_beast_p2, m_beast_p3,
    p0_w_prev,      \* the value of the previous beast_p0_w write (-1: none yet)
    m_bankxor,
    masterbank, masterbank_l, slavebank, soundbank,   \* current entry of each bank
    soundlatch, beastlatch, slavelatch,               \* [value, pending]
    beast_irq0, sound_nmi,                            \* lines driven by the latches
    lastw,          \* per latch, the value of the last write to it (-1: none yet)
    beast_read,     \* the BEAST has read beastlatch since the last write to it
    slave_reset,                                      \* INPUT_LINE_RESET of slavecpu
    gameset,        \* the ROM set being run: "djboy", "djboya" or "djboyj"
    poweron,        \* the register values the machine started with
    rom,            \* the ROM image: <<region, address>> of its one marked byte
    inputs,         \* what the ports IN0, IN1, IN2, DSW1 and DSW2 read
    \* ---- save states ----
    saved,          \* the machine state at the last save
    \* ---- address-map dispatch ----
    map_core, map_addr, map_dir, map_hits, map_handler,
    \* ---- observation of the last handler ----
    op, arg, offs, ret

bsmtVars  == <<m_bsmt_latch, m_bsmt_reset, m_bsmt_comms, bsmt_resets, chip_log,
               irq_line, firq_line, reset_w_prev>>
regVars   == <<m_videoreg, m_scrollx, m_scrolly>>
beastVars == <<m_beast_p0, m_beast_p1, m_beast_p2, m_beast_p3, p0_w_prev>>
bankVars  == <<m_bankxor, masterbank, masterbank_l, slavebank, soundbank>>
latchVars == <<soundlatch, beastlatch, slavelatch, beast_irq0, sound_nmi, lastw,
               beast_read>>
lineVars  == <<slave_reset>>
saveVars  == <<saved>>
mapVars   == <<map_core, map_addr, map_dir, map_hits, map_handler>>
miscVars  == <<gameset, poweron, rom, inputs>>
obsVars   == <<op, arg, offs, ret>>
djboyVars == <<regVars, beastVars, bankVars, latchVars, lineVars>>
vars      == <<bsmtVars, djboyVars, saveVars, mapVars, miscVars, obsVars>>

(***************************************************************************)
(* Byte arithmetic                                                         *)
(***************************************************************************)
Pow2(n) == 2 ^ n

\* BIT(x, n): bit n of x
BIT(x, n) == (x \div Pow2(n)) % 2

RECURSIVE XorBits(_, _, _)
XorBits(a, b, n) ==
    IF n = 0 THEN 0
    ELSE (((a % 2) + (b % 2)) % 2) + 2 * XorBits(a \div 2, b \div 2, n - 1)

RECURSIVE AndBits(_, _, _)
AndBits(a, b, n) ==
    IF n = 0 THEN 0
    ELSE ((a % 2) * (b % 2)) + 2 * AndBits(a \div 2, b \div 2, n - 1)

\* a ^ b and a & b on uint8_t
Xor8(a, b) == XorBits(a % 256, b % 256, 8)
And8(a, b) == AndBits(a % 256, b % 256, 8)

Obs(o, a, f, r) == op' = o /\ arg' = a /\ offs' = f /\ ret' = r

(***************************************************************************)
(* BSMT sound board                                                        *)
(***************************************************************************)
MaxResets == 3

\* device_reset
device_reset ==
    /\ m_bsmt_latch' = 0
    /\ m_bsmt_reset' = 0
    /\ m_bsmt_comms' = 0
    /\ reset_w_prev' = 0
    /\ chip_log' = << >>
    /\ Obs("device_reset", 0, 0, 0)
    /\ UNCHANGED <<bsmt_resets, irq_line, firq_line>>
    /\ UNCHANGED <<djboyVars, saveVars, mapVars, miscVars>>

\* bsmt_reset_w resetting the chip on either edge of bit 7
ResetEdge_AnyEdge(old, data) == And8(Xor8(data, old), 128) # 0

\* the condition under which bsmt_reset_w resets the chip
ResetEdge(old, data) ==
    LET diff == Xor8(data, old)
    IN  And8(diff, 128) # 0 /\ And8(data, 128) = 0

\* WRITE8_MEMBER(bsmt_reset_w)
bsmt_reset_w(data) ==
    /\ bsmt_resets < MaxResets
    /\ m_bsmt_reset' = data
    /\ reset_w_prev' = data
    /\ IF ResetEdge(m_bsmt_reset, data)
       THEN bsmt_resets' = bsmt_resets + 1 /\ chip_log' = << <<"reset", 0>> >>
       ELSE bsmt_resets' = bsmt_resets /\ chip_log' = << >>
    /\ Obs("bsmt_reset_w", data, 0, 0)
    /\ UNCHANGED <<m_bsmt_latch, m_bsmt_comms, irq_line, firq_line>>
    /\ UNCHANGED <<djboyVars, saveVars, mapVars, miscVars>>

\* WRITE8_MEMBER(bsmt0_w)
bsmt0_w(data) ==
    /\ m_bsmt_latch' = data
    /\ chip_log' = << >>
    /\ Obs("bsmt0_w", data, 0, 0)
    /\ UNCHANGED <<m_bsmt_reset, m_bsmt_comms, bsmt_resets, irq_line, firq_line,
                   reset_w_prev>>
    /\ UNCHANGED <<djboyVars, saveVars, mapVars, miscVars>>

\* bsmt1_w passing the offset on as the register number
Bsmt1Reg_Plain(offset) == offset

\* the register number bsmt1_w selects: offset ^ 0xff
Bsmt1Reg(offset) == Xor8(offset, 255)

\* the data word bsmt1_w writes: (m_bsmt_latch << 8) | data
Bsmt1Word(latch, data) == ((latch * 256) + data) % 65536

\* bsmt1_w asserting the IRQ line
Bsmt1IrqState_Assert == "ASSERT"

\* the level bsmt1_w puts on M6809_IRQ_LINE: the BSMT is not ready
Bsmt1IrqState == "CLEAR"

\* WRITE8_MEMBER(bsmt1_w)
bsmt1_w(offset, data) ==
    /\ chip_log' = << <<"write_reg", Bsmt1Reg(offset)>>,
                      <<"write_data", Bsmt1Word(m_bsmt_latch, data)>> >>
    /\ irq_line' = Bsmt1IrqState
    /\ Obs("bsmt1_w", data, offset, 0)
    /\ UNCHANGED <<m_bsmt_latch, m_bsmt_reset, m_bsmt_comms, bsmt_resets, firq_line,
                   reset_w_prev>>
    /\ UNCHANGED <<djboyVars, saveVars, mapVars, miscVars>>

\* READ8_MEMBER(bsmt_status_r); status is the chip's ready bit
bsmt_status_r(status) ==
    /\ chip_log' = << >>
    /\ Obs("bsmt_status_r", 0, 0, (status * 128) % 256)
    /\ UNCHANGED <<m_bsmt_latch, m_bsmt_reset, m_bsmt_comms, bsmt_resets, irq_line,
                   firq_line, reset_w_prev>>
    /\ UNCHANGED <<djboyVars, saveVars, mapVars, miscVars>>

\* READ8_MEMBER(bsmt_comms_r)
bsmt_comms_r ==
    /\ chip_log' = << >>
    /\ Obs("bsmt_comms_r", 0, 0, m_bsmt_comms)
    /\ UNCHANGED <<m_bsmt_latch, m_bsmt_reset, m_bsmt_comms, bsmt_resets, irq_line,
                   firq_line, reset_w_prev>>
    /\ UNCHANGED <<djboyVars, saveVars, mapVars, miscVars>>

\* WRITE8_MEMBER(bsmt_comms_w)
bsmt_comms_w(data) ==
    /\ m_bsmt_comms' = data
    /\ chip_log' = << >>
    /\ Obs("bsmt_comms_w", data, 0, 0)
    /\ UNCHANGED <<m_bsmt_latch, m_bsmt_reset, bsmt_resets, irq_line, firq_line,
                   reset_w_prev>>
    /\ UNCHANGED <<djboyVars, saveVars, mapVars, miscVars>>

\* bsmt_ready_callback
bsmt_ready_callback ==
    /\ irq_line' = "ASSERT"
    /\ chip_log' = << >>
    /\ Obs("bsmt_ready_callback", 0, 0, 0)
    /\ UNCHANGED <<m_bsmt_latch, m_bsmt_reset, m_bsmt_comms, bsmt_resets, firq_line,
                   reset_w_prev>>
    /\ UNCHANGED <<djboyVars, saveVars, mapVars, miscVars>>

\* INTERRUPT_GEN_MEMBER(decobsmt_firq_interrupt)
decobsmt_firq_interrupt ==
    /\ firq_line' = "HOLD"
    /\ chip_log' = << >>
    /\ Obs("decobsmt_firq_interrupt", 0, 0, 0)
    /\ UNCHANGED <<m_bsmt_latch, m_bsmt_reset, m_bsmt_comms, bsmt_resets, irq_line,
                   reset_w_prev>>
    /\ UNCHANGED <<djboyVars, saveVars, mapVars, miscVars>>

(***************************************************************************)
(* generic_latch_8_device: a one-byte mailbox with a pending flag          *)
(***************************************************************************)
\* write(value): store the value and set pending
LatchWrite(l, v) == [value |-> v, pending |-> TRUE]

\* acknowledge(): clear pending
LatchAck(l) == [l EXCEPT !.pending = FALSE]

\* read(): the latch after a read returning l.value; a latch configured for
\* separate acknowledge keeps pending
LatchRead(l, separate_acknowledge) ==
    IF separate_acknowledge THEN l ELSE LatchAck(l)

\* the level of the latch's data-pending line
PendingLine(l) == IF l.pending THEN "ASSERT" ELSE "CLEAR"

\* MACHINE_CONFIG djboy: which latches have MCFG_GENERIC_LATCH_SEPARATE_ACKNOWLEDGE
beastlatch_acknowledge_on_read == FALSE
slavelatch_separate_acknowledge == FALSE
beastlatch_separate_acknowledge == TRUE
soundlatch_separate_acknowledge == FALSE

(***************************************************************************)
(* DJ Boy: slave CPU, sound CPU and master CPU handlers                    *)
(***************************************************************************)
\* the byte beast_status_r returns
StatusByte ==
    (IF slavelatch.pending THEN 0 ELSE 4) + (IF beastlatch.pending THEN 8 ELSE 0)

\* READ8_MEMBER(beast_status_r)
beast_status_r ==
    /\ Obs("beast_status_r", 0, 0, StatusByte)
    /\ UNCHANGED <<djboyVars, bsmtVars, saveVars, mapVars, miscVars>>

\* mastercpu_bankswitch_w without the XOR
MasterEntry_NoXor(data, xor) == data

\* the entry mastercpu_bankswitch_w selects: data ^= m_bankxor on a uint8_t
MasterEntry(data, xor) == Xor8(data, xor)

\* WRITE8_MEMBER(mastercpu_bankswitch_w)
mastercpu_bankswitch_w(data) ==
    /\ masterbank' = MasterEntry(data, m_bankxor)
    /\ masterbank_l' = 0
    /\ Obs("mastercpu_bankswitch_w", data, 0, 0)
    /\ UNCHANGED <<m_bankxor, slavebank, soundbank>>
    /\ UNCHANGED <<regVars, beastVars, latchVars, lineVars>>
    /\ UNCHANGED <<bsmtVars, saveVars, mapVars, miscVars>>

\* WRITE8_MEMBER(slavecpu_bankswitch_w)
slavecpu_bankswitch_w(data) ==
    /\ m_videoreg' = data
    /\ slavebank' = IF And8(data, 12) # 4 THEN And8(data, 15) ELSE slavebank
    /\ Obs("slavecpu_bankswitch_w", data, 0, 0)
    /\ UNCHANGED <<m_scrollx, m_scrolly, m_bankxor, masterbank, masterbank_l, soundbank>>
    /\ UNCHANGED <<beastVars, latchVars, lineVars>>
    /\ UNCHANGED <<bsmtVars, saveVars, mapVars, miscVars>>

\* WRITE8_MEMBER(soundcpu_bankswitch_w)
soundcpu_bankswitch_w(data) ==
    /\ soundbank' = data
    /\ Obs("soundcpu_bankswitch_w", data, 0, 0)
    /\ UNCHANGED <<m_bankxor, masterbank, masterbank_l, slavebank>>
    /\ UNCHANGED <<regVars, beastVars, latchVars, lineVars>>
    /\ UNCHANGED <<bsmtVars, saveVars, mapVars, miscVars>>

\* slavecpu_port_am, port 0x02: write to soundlatch, which raises the sound CPU's NMI
slave_port02_w(data) ==
    /\ soundlatch' = LatchWrite(soundlatch, data)
    /\ sound_nmi' = PendingLine(soundlatch')
    /\ lastw' = [lastw EXCEPT !.sound = data]
    /\ Obs("slave_port02_w", data, 0, 0)
    /\ UNCHANGED <<beastlatch, slavelatch, beast_irq0, beast_read>>
    /\ UNCHANGED <<regVars, beastVars, bankVars, lineVars>>
    /\ UNCHANGED <<bsmtVars, saveVars, mapVars, miscVars>>

\* slavecpu_port_am, port 0x04: read of slavelatch
slave_port04_r ==
    /\ slavelatch' = LatchRead(slavelatch, slavelatch_separate_acknowledge)
    /\ Obs("slave_port04_r", 0, 0, slavelatch.value)
    /\ UNCHANGED <<soundlatch, beastlatch, beast_irq0, sound_nmi, lastw, beast_read>>
    /\ UNCHANGED <<regVars, beastVars, bankVars, lineVars>>
    /\ UNCHANGED <<bsmtVars, saveVars, mapVars, miscVars>>

\* slavecpu_port_am, port 0x04: write to beastlatch, which raises the BEAST's IRQ0
slave_port04_w(data) ==
    /\ beastlatch' = LatchWrite(beastlatch, data)
    /\ beast_irq0' = PendingLine(beastlatch')
    /\ lastw' = [lastw EXCEPT !.beast = data]
    /\ beast_read' = FALSE
    /\ Obs("slave_port04_w", data, 0, 0)
    /\ UNCHANGED <<soundlatch, slavelatch, sound_nmi>>
    /\ UNCHANGED <<regVars, beastVars, bankVars, lineVars>>
    /\ UNCHANGED <<bsmtVars, saveVars, mapVars, miscVars>>

\* soundcpu_port_am, port 0x04: read of soundlatch
sound_port04_r ==
    /\ soundlatch' = LatchRead(soundlatch, soundlatch_separate_acknowledge)
    /\ sound_nmi' = PendingLine(soundlatch')
    /\ Obs("sound_port04_r", 0, 0, soundlatch.value)
    /\ UNCHANGED <<beastlatch, slavelatch, beast_irq0, lastw, beast_read>>
    /\ UNCHANGED <<regVars, beastVars, bankVars, lineVars>>
    /\ UNCHANGED <<bsmtVars, saveVars, mapVars, miscVars>>

\* djboy_scrollx_w and djboy_scrolly_w (slave ports 0x08 and 0x06)
djboy_scrollx_w(data) ==
    /\ m_scrollx' = data
    /\ Obs("djboy_scrollx_w", data, 0, 0)
    /\ UNCHANGED <<m_videoreg, m_scrolly>>
    /\ UNCHANGED <<beastVars, bankVars, latchVars, lineVars>>
    /\ UNCHANGED <<bsmtVars, saveVars, mapVars, miscVars>>

djboy_scrolly_w(data) ==
    /\ m_scrolly' = data
    /\ Obs("djboy_scrolly_w", data, 0, 0)
    /\ UNCHANGED <<m_videoreg, m_scrollx>>
    /\ UNCHANGED <<beastVars, bankVars, latchVars, lineVars>>
    /\ UNCHANGED <<bsmtVars, saveVars, mapVars, miscVars>>

(***************************************************************************)
(* DJ Boy: the banked ROM windows                                          *)
(***************************************************************************)
MasterBankSize == 8192      \* 0x2000
SlaveBankSize == 16384      \* 0x4000
SoundBankSize == 16384      \* 0x4000
SlaveHighBase == 65536      \* 0x10000

\* a bank with no entry configured; -1 marks an unconfigured entry
NoEntries == [e \in 0..255 |-> -1]

\* memory_bank::configure_entries(startentry, numentries, base, stride): entry
\* startentry + i is the stride bytes at base + i * stride
ConfigureEntries(t, startentry, numentries, base, stride) ==
    [e \in DOMAIN t |->
        IF e >= startentry /\ e < startentry + numentries
        THEN base + (e - startentry) * stride
        ELSE t[e]]

\* slave_bank with entries 8..15 laid out as if 0..15 were contiguous
SlaveBankEntries_Contiguous ==
    ConfigureEntries(ConfigureEntries(NoEntries, 0, 4, 0, SlaveBankSize),
                     8, 8, 8 * SlaveBankSize, SlaveBankSize)

\* machine_start: the region offset of every configured entry of each bank
MasterBankEntries == ConfigureEntries(NoEntries, 0, 32, 0, MasterBankSize)
SlaveBankEntries ==
    ConfigureEntries(ConfigureEntries(NoEntries, 0, 4, 0, SlaveBankSize),
                     8, 8, SlaveHighBase, SlaveBankSize)
SoundBankEntries == ConfigureEntries(NoEntries, 0, 8, 0, SoundBankSize)

\* the byte of a ROM region at an address
RomByte(region, a) == IF rom = <<region, a>> THEN 165 ELSE 0

\* mastercpu_am: read at 0xc000 + offset, through master_bank
master_bank_r(offset) ==
    /\ MasterBankEntries[masterbank] # -1
    /\ Obs("master_bank_r", 0, offset,
           RomByte("mastercpu", MasterBankEntries[masterbank] + offset))
    /\ UNCHANGED <<djboyVars, bsmtVars, saveVars, mapVars, miscVars>>

\* slavecpu_am: read at 0x8000 + offset, through slave_bank
slave_bank_r(offset) ==
    /\ SlaveBankEntries[slavebank] # -1
    /\ Obs("slave_bank_r", 0, offset,
           RomByte("slavecpu", SlaveBankEntries[slavebank] + offset))
    /\ UNCHANGED <<djboyVars, bsmtVars, saveVars, mapVars, miscVars>>

\* soundcpu_am: read at 0x8000 + offset, through sound_bank
sound_bank_r(offset) ==
    /\ SoundBankEntries[soundbank] # -1
    /\ Obs("sound_bank_r", 0, offset,
           RomByte("soundcpu", SoundBankEntries[soundbank] + offset))
    /\ UNCHANGED <<djboyVars, bsmtVars, saveVars, mapVars, miscVars>>

(***************************************************************************)
(* DJ Boy: the BEAST microcontroller's port handlers                       *)
(***************************************************************************)
\* READ8_MEMBER(beast_p0_r)
beast_p0_r ==
    /\ Obs("beast_p0_r", 0, 0, 0)
    /\ UNCHANGED <<djboyVars, bsmtVars, saveVars, mapVars, miscVars>>

\* beast_p0_w writing port 1 to slavelatch on either edge of bit 1
P0WritesSlaveLatch_AnyEdge(old, data) == BIT(old, 1) # BIT(data, 1)

\* beast_p0_w writes port 1 to slavelatch when bit 1 rises
P0WritesSlaveLatch(old, data) == BIT(old, 1) = 0 /\ BIT(data, 1) = 1

\* beast_p0_w acknowledging beastlatch when bit 0 is set
P0Acknowledges_BitSet(data) == BIT(data, 0) = 1

\* beast_p0_w acknowledges beastlatch when bit 0 is clear
P0Acknowledges(data) == BIT(data, 0) = 0

\* WRITE8_MEMBER(beast_p0_w)
beast_p0_w(data) ==
    /\ slavelatch' = IF P0WritesSlaveLatch(m_beast_p0, data)
                     THEN LatchWrite(slavelatch, m_beast_p1)
                     ELSE slavelatch
    /\ lastw' = IF P0WritesSlaveLatch(m_beast_p0, data)
                THEN [lastw EXCEPT !.slave = m_beast_p1]
                ELSE lastw
    /\ beastlatch' = IF P0Acknowledges(data) THEN LatchAck(beastlatch) ELSE beastlatch
    /\ beast_irq0' = PendingLine(beastlatch')
    /\ m_beast_p0' = data
    /\ p0_w_prev' = data
    /\ Obs("beast_p0_w", data, 0, 0)
    /\ UNCHANGED <<m_beast_p1, m_beast_p2, m_beast_p3, soundlatch, sound_nmi, beast_read>>
    /\ UNCHANGED <<regVars, bankVars, lineVars>>
    /\ UNCHANGED <<bsmtVars, saveVars, mapVars, miscVars>>

\* beast_p1_r reading beastlatch while bit 0 of port 0 is set
P1ReadsLatch_Inverted(p0) == BIT(p0, 0) = 1

\* beast_p1_r reads beastlatch while bit 0 of port 0 is clear
P1ReadsLatch(p0) == BIT(p0, 0) = 0

\* READ8_MEMBER(beast_p1_r)
beast_p1_r ==
    /\ IF P1ReadsLatch(m_beast_p0)
       THEN /\ beastlatch' = LatchRead(beastlatch, beastlatch_separate_acknowledge)
            /\ beast_read' = TRUE
            /\ Obs("beast_p1_r", 0, 0, beastlatch.value)
       ELSE /\ beastlatch' = beastlatch
            /\ beast_read' = beast_read
            /\ Obs("beast_p1_r", 0, 0, 0)
    /\ beast_irq0' = PendingLine(beastlatch')
    /\ UNCHANGED <<soundlatch, slavelatch, sound_nmi, lastw>>
    /\ UNCHANGED <<regVars, beastVars, bankVars, lineVars>>
    /\ UNCHANGED <<bsmtVars, saveVars, mapVars, miscVars>>

\* WRITE8_MEMBER(beast_p1_w)
beast_p1_w(data) ==
    /\ m_beast_p1' = data
    /\ Obs("beast_p1_w", data, 0, 0)
    /\ UNCHANGED <<m_beast_p0, m_beast_p2, m_beast_p3, p0_w_prev>>
    /\ UNCHANGED <<regVars, bankVars, latchVars, lineVars>>
    /\ UNCHANGED <<bsmtVars, saveVars, mapVars, miscVars>>

\* WRITE8_MEMBER(beast_p2_w)
beast_p2_w(data) ==
    /\ m_beast_p2' = data
    /\ Obs("beast_p2_w", data, 0, 0)
    /\ UNCHANGED <<m_beast_p0, m_beast_p1, m_beast_p3, p0_w_prev>>
    /\ UNCHANGED <<regVars, bankVars, latchVars, lineVars>>
    /\ UNCHANGED <<bsmtVars, saveVars, mapVars, miscVars>>

\* beast_p2_r returning the input ports in the order IN0, IN1, IN2
P2Input_InOrder(sel) ==
    CASE sel = 0 -> inputs.in0
      [] sel = 1 -> inputs.in1
      [] sel = 2 -> inputs.in2
      [] OTHER -> 255

\* the switch of beast_p2_r: m_port_in[1], m_port_in[2], m_port_in[0] or 0xff
P2Input(sel) ==
    CASE sel = 0 -> inputs.in1
      [] sel = 1 -> inputs.in2
      [] sel = 2 -> inputs.in0
      [] OTHER -> 255

\* READ8_MEMBER(beast_p2_r); the selector is (m_beast_p0 >> 2) & 3
beast_p2_r ==
    /\ Obs("beast_p2_r", 0, 0, P2Input((m_beast_p0 \div 4) % 4))
    /\ UNCHANGED <<djboyVars, bsmtVars, saveVars, mapVars, miscVars>>

\* ~x on uint8_t
Not8(x) == 255 - (x % 256)

\* a | b on uint8_t
Or8(a, b) == ((a % 256) + (b % 256)) - And8(a, b)

\* beast_p3_r selecting the DIP switch bits with bits 3..2 of port 0
DswSelector_InputBits(p0) == (p0 \div 4) % 4

\* the selector of beast_p3_r: (m_beast_p0 >> 5) & 3
DswSelector(p0) == (p0 \div 32) % 4

\* the switch of beast_p3_r: the nibble dsw for a selector, from the inverted
\* DIP switch bytes dsw1 and dsw2
DswNibble(sel, dsw1, dsw2) ==
    CASE sel = 0 -> (BIT(dsw2, 4) * 8) + (BIT(dsw2, 0) * 4) + (BIT(dsw1, 4) * 2) + BIT(dsw1, 0)
      [] sel = 1 -> (BIT(dsw2, 5) * 8) + (BIT(dsw2, 1) * 4) + (BIT(dsw1, 5) * 2) + BIT(dsw1, 1)
      [] sel = 2 -> (BIT(dsw2, 6) * 8) + (BIT(dsw2, 2) * 4) + (BIT(dsw1, 6) * 2) + BIT(dsw1, 2)
      [] sel = 3 -> (BIT(dsw2, 7) * 8) + (BIT(dsw2, 3) * 4) + (BIT(dsw1, 7) * 2) + BIT(dsw1, 3)

\* beast_p3_r reporting the two latches in the bits beast_status_r uses
P3LatchFlags_AsStatus ==
    (IF slavelatch.pending THEN 0 ELSE 4) + (IF beastlatch.pending THEN 8 ELSE 0)

\* the latch flags in the low nibble of beast_p3_r
P3LatchFlags ==
    Or8(IF beastlatch.pending THEN 0 ELSE 4, IF slavelatch.pending THEN 8 ELSE 0)

\* the byte beast_p3_r returns
P3Byte ==
    LET dsw1 == Not8(inputs.dsw1)
        dsw2 == Not8(inputs.dsw2)
        dsw == DswNibble(DswSelector(m_beast_p0), dsw1, dsw2)
    IN  Or8((dsw * 16) % 256, P3LatchFlags)

\* READ8_MEMBER(beast_p3_r)
beast_p3_r ==
    /\ Obs("beast_p3_r", 0, 0, P3Byte)
    /\ UNCHANGED <<djboyVars, bsmtVars, saveVars, mapVars, miscVars>>

\* the level beast_p3_w drives on the slave CPU's reset line
SlaveResetLevel(data) == IF And8(data, 2) # 0 THEN "CLEAR" ELSE "ASSERT"

\* WRITE8_MEMBER(beast_p3_w)
beast_p3_w(data) ==
    /\ m_beast_p3' = data
    /\ slave_reset' = SlaveResetLevel(data)
    /\ Obs("beast_p3_w", data, 0, 0)
    /\ UNCHANGED <<m_beast_p0, m_beast_p1, m_beast_p2, p0_w_prev>>
    /\ UNCHANGED <<regVars, bankVars, latchVars>>
    /\ UNCHANGED <<bsmtVars, saveVars, mapVars, miscVars>>

\* djboy_state::machine_reset
machine_reset ==
    /\ m_videoreg' = 0
    /\ m_scrollx' = 0
    /\ m_scrolly' = 0
    /\ Obs("machine_reset", 0, 0, 0)
    /\ UNCHANGED <<beastVars, bankVars, latchVars, lineVars>>
    /\ UNCHANGED <<bsmtVars, saveVars, mapVars, miscVars>>

(***************************************************************************)
(* Address maps: each binding is a range with its read and write handler   *)
(* ("" where the binding has none for that direction), in source order     *)
(***************************************************************************)
decobsmt_map ==
    << [lo |-> 0, hi |-> 8191, r |-> "ram", w |-> "ram"],
       [lo |-> 8192, hi |-> 65535, r |-> "rom", w |-> ""],
       [lo |-> 8192, hi |-> 8193, r |-> "", w |-> "bsmt_reset_w"],
       [lo |-> 8194, hi |-> 8195, r |-> "bsmt_comms_r", w |-> ""],
       [lo |-> 8198, hi |-> 8199, r |-> "bsmt_status_r", w |-> ""],
       [lo |-> 24576, hi |-> 24576, r |-> "", w |-> "bsmt0_w"],
       [lo |-> 40960, hi |-> 41215, r |-> "", w |-> "bsmt1_w"] >>

mastercpu_am ==
    << [lo |-> 0, hi |-> 32767, r |-> "rom", w |-> ""],
       [lo |-> 32768, hi |-> 45055, r |-> "master_bank_l", w |-> ""],
       [lo |-> 45056, hi |-> 49151, r |-> "spriteram_r", w |-> "spriteram_w"],
       [lo |-> 49152, hi |-> 57343, r |-> "master_bank", w |-> ""],
       [lo |-> 57344, hi |-> 61439, r |-> "share1", w |-> "share1"],
       [lo |-> 61440, hi |-> 63487, r |-> "ram", w |-> "ram"],
       [lo |-> 63488, hi |-> 65535, r |-> "ram", w |-> "ram"] >>

mastercpu_port_am ==
    << [lo |-> 0, hi |-> 0, r |-> "", w |-> "mastercpu_bankswitch_w"] >>

slavecpu_am ==
    << [lo |-> 0, hi |-> 32767, r |-> "rom", w |-> ""],
       [lo |-> 32768, hi |-> 49151, r |-> "slave_bank", w |-> ""],
       [lo |-> 49152, hi |-> 53247, r |-> "videoram", w |-> "djboy_videoram_w"],
       [lo |-> 53248, hi |-> 54271, r |-> "paletteram", w |-> "djboy_paletteram_w"],
       [lo |-> 54272, hi |-> 55551, r |-> "ram", w |-> "ram"],
       [lo |-> 57344, hi |-> 65535, r |-> "share1", w |-> "share1"] >>

slavecpu_port_am ==
    << [lo |-> 0, hi |-> 0, r |-> "", w |-> "slavecpu_bankswitch_w"],
       [lo |-> 2, hi |-> 2, r |-> "", w |-> "soundlatch_w"],
       [lo |-> 4, hi |-> 4, r |-> "slavelatch_r", w |-> "beastlatch_w"],
       [lo |-> 6, hi |-> 6, r |-> "", w |-> "djboy_scrolly_w"],
       [lo |-> 8, hi |-> 8, r |-> "", w |-> "djboy_scrollx_w"],
       [lo |-> 10, hi |-> 10, r |-> "", w |-> "trigger_nmi_on_mastercpu"],
       [lo |-> 12, hi |-> 12, r |-> "beast_status_r", w |-> ""],
       [lo |-> 14, hi |-> 14, r |-> "", w |-> "coin_count_w"] >>

soundcpu_am ==
    << [lo |-> 0, hi |-> 32767, r |-> "rom", w |-> ""],
       [lo |-> 32768, hi |-> 49151, r |-> "sound_bank", w |-> ""],
       [lo |-> 49152, hi |-> 57343, r |-> "ram", w |-> "ram"] >>

soundcpu_port_am ==
    << [lo |-> 0, hi |-> 0, r |-> "", w |-> "soundcpu_bankswitch_w"],
       [lo |-> 2, hi |-> 3, r |-> "ym2203_r", w |-> "ym2203_w"],
       [lo |-> 4, hi |-> 4, r |-> "soundlatch_r", w |-> ""],
       [lo |-> 6, hi |-> 6, r |-> "oki_l_r", w |-> "oki_l_w"],
       [lo |-> 7, hi |-> 7, r |-> "oki_r_r", w |-> "oki_r_w"] >>

AddressMaps == {"decobsmt_map", "mastercpu_am", "mastercpu_port_am", "slavecpu_am",
                "slavecpu_port_am", "soundcpu_am", "soundcpu_port_am"}

MapOf(core) ==
    CASE core = "decobsmt_map" -> decobsmt_map
      [] core = "mastercpu_am" -> mastercpu_am
      [] core = "mastercpu_port_am" -> mastercpu_port_am
      [] core = "slavecpu_am" -> slavecpu_am
      [] core = "slavecpu_port_am" -> slavecpu_port_am
      [] core = "soundcpu_am" -> soundcpu_am
      [] core = "soundcpu_port_am" -> soundcpu_port_am

\* map.global_mask(0xff) of the three port maps; the program maps decode 16 bits
GlobalMask(core) ==
    IF core \in {"mastercpu_port_am", "slavecpu_port_am", "soundcpu_port_am"}
    THEN 256 ELSE 65536

\* the handler a binding has for a direction
HandlerOf(b, dir) == IF dir = "r" THEN b.r ELSE b.w

\* the bindings of a map that match (address, direction)
Matching(m, a, dir) ==
    {i \in 1..Len(m) : m[i].lo <= a /\ a <= m[i].hi /\ HandlerOf(m[i], dir) # ""}

RECURSIVE MaxOf(_)
MaxOf(S) == LET x == CHOOSE y \in S : TRUE
            IN  IF S = {x} THEN x
                ELSE LET r == MaxOf(S \ {x}) IN IF x > r THEN x ELSE r

\* an access by a core: the bindings that match, and the handler invoked, which
\* is that of the binding installed last
dispatch(core, address, dir) ==
    LET m == MapOf(core)
        a == address % GlobalMask(core)
        hits == Matching(m, a, dir)
    IN  /\ map_core' = core
        /\ map_addr' = address
        /\ map_dir' = dir
        /\ map_hits' = hits
        /\ map_handler' = IF hits = {} THEN "unmapped" ELSE HandlerOf(m[MaxOf(hits)], dir)
        /\ Obs("dispatch", 0, 0, 0)
        /\ UNCHANGED <<djboyVars, bsmtVars, saveVars, miscVars>>

(***************************************************************************)
(* Initial states                                                          *)
(***************************************************************************)
\* the sound board after device_reset; the CPU's lines start clear
InitBsmt ==
    /\ m_bsmt_latch = 0
    /\ m_bsmt_reset = 0
    /\ m_bsmt_comms = 0
    /\ bsmt_resets = 0
    /\ chip_log = << >>
    /\ irq_line = "CLEAR"
    /\ firq_line = "CLEAR"
    /\ reset_w_prev = 0

\* an empty latch
EmptyLatch == [value |-> 0, pending |-> FALSE]

\* DRIVER_INIT(djboy) for the sets djboy and djboya, DRIVER_INIT(djboyj) for djboyj
DriverInit(set) == IF set = "djboyj" THEN 31 ELSE 0

\* DJ Boy running ROM set `set` after machine_start, DRIVER_INIT and machine_reset.  No constructor, start or reset code assigns m_beast_p0..p3:
\* they hold whatever the object held, which is u.
InitDjboy(u, set, image) ==
    /\ m_videoreg = 0
    /\ m_scrollx = 0
    /\ m_scrolly = 0
    /\ m_beast_p0 = u.p0
    /\ m_beast_p1 = u.p1
    /\ m_beast_p2 = u.p2
    /\ m_beast_p3 = u.p3
    /\ p0_w_prev = -1
    /\ poweron = u
    /\ gameset = set
    /\ m_bankxor = DriverInit(set)
    /\ masterbank = 0
    /\ masterbank_l = 0
    /\ slavebank = 0
    /\ soundbank = 0
    /\ soundlatch = EmptyLatch
    /\ beastlatch = EmptyLatch
    /\ slavelatch = EmptyLatch
    /\ beast_irq0 = "CLEAR"
    /\ sound_nmi = "CLEAR"
    /\ lastw = [sound |-> -1, beast |-> -1, slave |-> -1]
    /\ beast_read = FALSE
    /\ slave_reset = "CLEAR"
    /\ rom = image

ZeroPorts == [p0 |-> 0, p1 |-> 0, p2 |-> 0, p3 |-> 0]

\* what m_beast_p0..p3 may hold at start
UninitBytes == {0, 255}
PowerOnPorts == [p0 : UninitBytes, p1 : UninitBytes, p2 : UninitBytes, p3 : UninitBytes]
NoImage == <<"none", 0>>

\* INPUT_PORTS djboy: nothing pressed (the IN ports are active low) and the DIP
\* switches at their defaults
InputsAtRest == [in0 |-> 255, in1 |-> 255, in2 |-> 255, dsw1 |-> 0, dsw2 |-> 128]

InitInputs == inputs = InputsAtRest

InitObs == op = "start" /\ arg = 0 /\ offs = 0 /\ ret = 0

InitMapVars ==
    /\ map_core = "none"
    /\ map_addr = 0
    /\ map_dir = "r"
    /\ map_hits = {}
    /\ map_handler = "none"

\* the driver-owned registers, as a save state would have to hold them
Registers ==
    [bsmt_latch |-> m_bsmt_latch, bsmt_reset |-> m_bsmt_reset,
     bsmt_comms |-> m_bsmt_comms,
     videoreg |-> m_videoreg, scrollx |-> m_scrollx, scrolly |-> m_scrolly,
     p0 |-> m_beast_p0, p1 |-> m_beast_p1, p2 |-> m_beast_p2, p3 |-> m_beast_p3]

InitSave == saved = [valid |-> FALSE, regs |-> Registers]

InitBsmtAll ==
    /\ InitBsmt
    /\ InitDjboy(ZeroPorts, "djboy", NoImage)
    /\ InitSave
    /\ InitMapVars
    /\ InitInputs
    /\ InitObs

(***************************************************************************)
(* Save states                                                             *)
(***************************************************************************)
\* machine_start: the save_item(NAME(...)) calls of djboy_state
DjboySaveItems == {"videoreg", "scrollx", "scrolly", "p0", "p1", "p2", "p3"}

\* device_start: the save_item calls of decobsmt_device (there are none)
BsmtSaveItems == {}

SaveItems == DjboySaveItems \cup BsmtSaveItems

\* the value a register has after a load: the saved one if it was registered
Loaded(item, current) == IF item \in SaveItems THEN saved.regs[item] ELSE current

\* saving the machine state
save_state ==
    /\ saved' = [valid |-> TRUE, regs |-> Registers]
    /\ Obs("save_state", 0, 0, 0)
    /\ UNCHANGED <<bsmtVars, djboyVars, mapVars, miscVars>>

\* loading the saved state: every registered item gets its saved value
load_state ==
    /\ saved.valid
    /\ m_bsmt_latch' = Loaded("bsmt_latch", m_bsmt_latch)
    /\ m_bsmt_reset' = Loaded("bsmt_reset", m_bsmt_reset)
    /\ m_bsmt_comms' = Loaded("bsmt_comms", m_bsmt_comms)
    /\ m_videoreg' = Loaded("videoreg", m_videoreg)
    /\ m_scrollx' = Loaded("scrollx", m_scrollx)
    /\ m_scrolly' = Loaded("scrolly", m_scrolly)
    /\ m_beast_p0' = Loaded("p0", m_beast_p0)
    /\ m_beast_p1' = Loaded("p1", m_beast_p1)
    /\ m_beast_p2' = Loaded("p2", m_beast_p2)
    /\ m_beast_p3' = Loaded("p3", m_beast_p3)
    /\ Obs("load_state", 0, 0, 0)
    /\ UNCHANGED <<bsmt_resets, chip_log, irq_line, firq_line, reset_w_prev, p0_w_prev>>
    /\ UNCHANGED <<bankVars, latchVars, lineVars>>
    /\ UNCHANGED <<saveVars, mapVars, miscVars>>

SaveData == {0, 90}

InitSaveAll ==
    /\ InitBsmt
    /\ InitDjboy(ZeroPorts, "djboy", NoImage)
    /\ InitSave
    /\ InitMapVars
    /\ InitInputs
    /\ InitObs

NextSave ==
    \/ device_reset
    \/ \E d \in {0, 128} : bsmt_reset_w(d)
    \/ \E d \in SaveData : bsmt0_w(d)
    \/ \E d \in SaveData : bsmt_comms_w(d)
    \/ bsmt_comms_r
    \/ \E d \in SaveData : djboy_scrollx_w(d)
    \/ \E d \in SaveData : beast_p1_w(d)
    \/ \E d \in SaveData : beast_p2_w(d)
    \/ machine_reset
    \/ save_state
    \/ load_state

SpecSave == InitSaveAll /\ [][NextSave]_vars

(***************************************************************************)
(* DJ Boy: registers across a machine reset                                *)
(***************************************************************************)
InitReset ==
    /\ InitBsmt
    /\ \E u \in PowerOnPorts :
          /\ u.p2 = 0
          /\ InitDjboy(u, "djboy", NoImage)
    /\ InitSave
    /\ InitMapVars
    /\ InitInputs
    /\ InitObs

NextReset ==
    \/ \E d \in {0, 3} : slavecpu_bankswitch_w(d)
    \/ \E d \in {0, 1} : djboy_scrollx_w(d)
    \/ \E d \in {0, 3} : beast_p0_w(d)
    \/ \E d \in {0, 119} : beast_p1_w(d)
    \/ \E d \in {0, 2} : beast_p3_w(d)
    \/ machine_reset

SpecReset == InitReset /\ [][NextReset]_vars

(***************************************************************************)
(* The sound board on its own                                              *)
(***************************************************************************)
ResetData == {0, 1, 128, 255}
LatchData == {0, 18}
CommsData == {0, 90}
Bsmt1Offsets == {0, 1, 255}
Bsmt1Data == {0, 52}

NextBsmt ==
    \/ device_reset
    \/ \E d \in ResetData : bsmt_reset_w(d)
    \/ \E d \in LatchData : bsmt0_w(d)
    \/ \E o \in Bsmt1Offsets, d \in Bsmt1Data : bsmt1_w(o, d)
    \/ \E s \in {0, 1} : bsmt_status_r(s)
    \/ bsmt_comms_r
    \/ \E d \in CommsData : bsmt_comms_w(d)
    \/ bsmt_ready_callback
    \/ decobsmt_firq_interrupt

SpecBsmt == InitBsmtAll /\ [][NextBsmt]_vars

(***************************************************************************)
(* DJ Boy: the latch handshake between slave CPU, sound CPU and BEAST      *)
(***************************************************************************)
SoundCmds == {1, 2}
BeastCmds == {17, 34}
P0Data == {0, 1, 2, 3}
P1Data == {0, 119}

Init ==
    /\ InitBsmt
    /\ \E u \in PowerOnPorts :
          /\ u.p2 = 0 /\ u.p3 = 0
          /\ InitDjboy(u, "djboy", NoImage)
    /\ InitSave
    /\ InitMapVars
    /\ InitInputs
    /\ InitObs

Next ==
    \/ \E d \in SoundCmds : slave_port02_w(d)
    \/ \E d \in BeastCmds : slave_port04_w(d)
    \/ slave_port04_r
    \/ sound_port04_r
    \/ beast_status_r
    \/ beast_p0_r
    \/ \E d \in P0Data : beast_p0_w(d)
    \/ beast_p1_r
    \/ \E d \in P1Data : beast_p1_w(d)

Spec == Init /\ [][Next]_vars

(***************************************************************************)
(* DJ Boy: the BEAST reading its ports                                     *)
(***************************************************************************)
\* port-0 values covering every input selector (bits 3..2), every DIP switch
\* selector (bits 6..5), bit 0 and bit 1
BeastP0Data == {0, 1, 2, 4, 8, 12, 32, 64, 96, 255}

\* settings of the two DIP switch banks, and what the players hold down
DswSettings == {<<0, 128>>, <<255, 0>>, <<165, 60>>, <<1, 16>>, <<4, 64>>, <<128, 8>>}
InSettings == {<<255, 255, 255>>, <<251, 238, 223>>}

InitBeast ==
    /\ InitBsmt
    /\ \E u \in PowerOnPorts :
          /\ u.p2 = 0 /\ u.p3 = 0
          /\ InitDjboy(u, "djboy", NoImage)
    /\ InitSave
    /\ InitMapVars
    /\ \E d \in DswSettings, i \in InSettings :
          inputs = [in0 |-> i[1], in1 |-> i[2], in2 |-> i[3],
                    dsw1 |-> d[1], dsw2 |-> d[2]]
    /\ InitObs

NextBeast ==
    \/ \E d \in {17} : slave_port04_w(d)
    \/ slave_port04_r
    \/ beast_status_r
    \/ beast_p0_r
    \/ \E d \in BeastP0Data : beast_p0_w(d)
    \/ beast_p1_r
    \/ beast_p2_r
    \/ beast_p3_r

SpecBeast == InitBeast /\ [][NextBeast]_vars

(***************************************************************************)
(* DJ Boy: bank switching                                                  *)
(***************************************************************************)
GameSets == {"djboy", "djboya", "djboyj"}
BankMasterData == {0, 5, 31, 32}
BankSlaveData == {0, 3, 4, 8, 15, 248}
BankSoundData == {0, 7, 8}
MasterOffsets == {0, 16, MasterBankSize - 1}
SlaveOffsets == {0, 16, SlaveBankSize - 1}

\* ROM images: the marked byte lies at offset 0x10 of some bank-sized page
RomImages ==
    {<<"mastercpu", (e * MasterBankSize) + 16>> : e \in {0, 5, 26, 31}}
    \cup {<<"slavecpu", (e * SlaveBankSize) + 16>> : e \in {0, 3, 4, 8, 11, 15}}
    \cup {<<"soundcpu", (e * SoundBankSize) + 16>> : e \in {0, 7}}

InitBank ==
    /\ InitBsmt
    /\ \E set \in {"djboy", "djboyj"}, image \in RomImages :
          InitDjboy(ZeroPorts, set, image)
    /\ InitSave
    /\ InitMapVars
    /\ InitInputs
    /\ InitObs

NextBank ==
    \/ \E d \in BankMasterData : mastercpu_bankswitch_w(d)
    \/ \E d \in BankSlaveData : slavecpu_bankswitch_w(d)
    \/ \E d \in BankSoundData : soundcpu_bankswitch_w(d)
    \/ \E o \in MasterOffsets : master_bank_r(o)
    \/ \E o \in SlaveOffsets : slave_bank_r(o)
    \/ \E o \in SlaveOffsets : sound_bank_r(o)

SpecBank == InitBank /\ [][NextBank]_vars

\* the master CPU's bank port over every byte, for each ROM set
InitMaster ==
    /\ InitBsmt
    /\ \E set \in GameSets : InitDjboy(ZeroPorts, set, NoImage)
    /\ InitSave
    /\ InitMapVars
    /\ InitInputs
    /\ InitObs

NextMaster ==
    \/ \E d \in 0..255 : mastercpu_bankswitch_w(d)
    \/ \E o \in MasterOffsets : master_bank_r(o)

SpecMaster == InitMaster /\ [][NextMaster]_vars

(***************************************************************************)
(* Address-map dispatch                                                    *)
(***************************************************************************)
\* the first and last address of every binding of a map, and their neighbours
ProbeAddresses(core) ==
    LET m == MapOf(core)
    IN  {a \in UNION {{m[i].lo - 1, m[i].lo, m[i].hi, m[i].hi + 1} : i \in 1..Len(m)} :
            a >= 0 /\ a < 65536}

InitMap ==
    /\ InitBsmt
    /\ InitDjboy(ZeroPorts, "djboy", NoImage)
    /\ InitSave
    /\ InitMapVars
    /\ InitInputs
    /\ InitObs

NextMap ==
    \E core \in AddressMaps, dir \in {"r", "w"} :
        \E a \in ProbeAddresses(core) \cup {260} : dispatch(core, a, dir)

SpecMap == InitMap /\ [][NextMap]_vars

(***************************************************************************)
(* Properties                                                              *)
(***************************************************************************)
\* C1: a bsmt_reset_w write resets the BSMT chip exactly once when it takes bit 7
\* from 1 (in the previously written value, 0 after reset) to 0, and not at all
\* when bit 7 rises or stays; no other handler resets the chip.
C1_ResetOnFallingEdge ==
    [][ /\ op' = "bsmt_reset_w" =>
             bsmt_resets' = bsmt_resets +
                 (IF BIT(reset_w_prev, 7) = 1 /\ BIT(arg', 7) = 0 THEN 1 ELSE 0)
        /\ op' # "bsmt_reset_w" => bsmt_resets' = bsmt_resets ]_vars

\* 0x80 (or 0xff) then 0x00 has been written: one reset call
C1_Witness ==
    /\ op = "bsmt_reset_w" /\ arg = 0
    /\ bsmt_resets = 1
    /\ chip_log = << <<"reset", 0>> >>

\* C2: beastlatch's pending flag is not changed by beast_p1_r, falls only in a
\* beast_p0_w with bit 0 clear and rises only in the slave's write to port 0x04;
\* slavelatch's and soundlatch's flags rise in exactly their writes and fall in
\* exactly their consumer's reads.
C2_PendingDiscipline ==
    [][ /\ op' = "beast_p1_r" => beastlatch'.pending = beastlatch.pending
        /\ (beastlatch.pending /\ ~beastlatch'.pending)
              => (op' = "beast_p0_w" /\ BIT(arg', 0) = 0)
        /\ (op' = "beast_p0_w" /\ BIT(arg', 0) = 0) => ~beastlatch'.pending
        /\ (~beastlatch.pending /\ beastlatch'.pending) => op' = "slave_port04_w"
        /\ op' = "slave_port04_w" => beastlatch'.pending
        /\ (~slavelatch.pending /\ slavelatch'.pending) => op' = "beast_p0_w"
        /\ (op' = "beast_p0_w" /\ BIT(m_beast_p0, 1) = 0 /\ BIT(arg', 1) = 1)
              => slavelatch'.pending
        /\ (slavelatch.pending /\ ~slavelatch'.pending) => op' = "slave_port04_r"
        /\ op' = "slave_port04_r" => ~slavelatch'.pending
        /\ (~soundlatch.pending /\ soundlatch'.pending) => op' = "slave_port02_w"
        /\ op' = "slave_port02_w" => soundlatch'.pending
        /\ (soundlatch.pending /\ ~soundlatch'.pending) => op' = "sound_port04_r"
        /\ op' = "sound_port04_r" => ~soundlatch'.pending ]_vars

\* the BEAST has read a pending beastlatch and it is still pending
C2_Witness ==
    /\ op = "beast_p1_r" /\ BIT(m_beast_p0, 0) = 0
    /\ ret = lastw.beast
    /\ beastlatch.pending

\* C3: right after a write of v to a latch its pending flag is set, and a
\* consumer read (for beastlatch: beast_p1_r while port-0 bit 0 is 0) returns the
\* value of the last write to that latch.
C3_WriteThenRead ==
    [][ /\ op' = "slave_port02_w" => (soundlatch'.pending /\ lastw'.sound = arg')
        /\ op' = "slave_port04_w" => (beastlatch'.pending /\ lastw'.beast = arg')
        /\ (op' = "beast_p0_w" /\ BIT(m_beast_p0, 1) = 0 /\ BIT(arg', 1) = 1)
              => (slavelatch'.pending /\ lastw'.slave = m_beast_p1)
        /\ (op' = "sound_port04_r" /\ lastw.sound # -1) => ret' = lastw.sound
        /\ (op' = "slave_port04_r" /\ lastw.slave # -1) => ret' = lastw.slave
        /\ (op' = "beast_p1_r" /\ BIT(m_beast_p0, 0) = 0 /\ lastw.beast # -1)
              => ret' = lastw.beast ]_vars

\* each consumer has read back the value last written to its latch
C3_Witness ==
    \/ op = "beast_p1_r" /\ BIT(m_beast_p0, 0) = 0 /\ lastw.beast = 34 /\ ret = 34
    \/ op = "slave_port04_r" /\ lastw.slave = 119 /\ ret = 119
    \/ op = "sound_port04_r" /\ lastw.sound = 2 /\ ret = 2

\* C4 as claimed: a read at offset off of the banked window with entry i selected
\* returns the byte at i * bank_size + off of the CPU's ROM region, for all three
\* banks and every configured entry.
C4_Claimed ==
    /\ op = "master_bank_r" => ret = RomByte("mastercpu", (masterbank * MasterBankSize) + offs)
    /\ op = "slave_bank_r" => ret = RomByte("slavecpu", (slavebank * SlaveBankSize) + offs)
    /\ op = "sound_bank_r" => ret = RomByte("soundcpu", (soundbank * SoundBankSize) + offs)

\* C4: as amended: that holds for master_bank, sound_bank and slave_bank entries
\* 0..3; slave_bank entries 8..15 return the byte at
\* 0x10000 + (i - 8) * 0x4000 + off of the slave CPU's region.
C4_BankRead ==
    /\ op = "master_bank_r" => ret = RomByte("mastercpu", (masterbank * MasterBankSize) + offs)
    /\ op = "slave_bank_r" =>
          ret = RomByte("slavecpu",
                        IF slavebank < 8
                        THEN (slavebank * SlaveBankSize) + offs
                        ELSE SlaveHighBase + ((slavebank - 8) * SlaveBankSize) + offs)
    /\ op = "sound_bank_r" => ret = RomByte("soundcpu", (soundbank * SoundBankSize) + offs)

\* the marked byte has been read through a high slave entry and through
\* master_bank entry 5 at offset 0x10
C4_Witness ==
    \/ op = "slave_bank_r" /\ slavebank = 8 /\ offs = 16 /\ ret = 165
    \/ op = "master_bank_r" /\ masterbank = 5 /\ offs = 16 /\ ret = 165

\* C5: after any write to a bank-switch port the active entry of each bank is
\* one machine_start configured.
C5_EntryConfigured ==
    /\ MasterBankEntries[masterbank] # -1
    /\ SlaveBankEntries[slavebank] # -1
    /\ SoundBankEntries[soundbank] # -1

\* C10: a write of d in 0..31 to the master bank port selects entry d XOR bankxor,
\* bankxor being 0 for djboy and djboya and 0x1f for djboyj; the entry is in 0..31,
\* distinct d select distinct entries, and djboyj reverses the order.
C10_XorBankLayout ==
    /\ m_bankxor = (IF gameset = "djboyj" THEN 31 ELSE 0)
    /\ (op = "mastercpu_bankswitch_w" /\ arg \in 0..31) =>
          /\ masterbank \in 0..31
          /\ masterbank = (IF gameset = "djboyj" THEN 31 - arg ELSE arg)
          /\ \A d \in (0..31) \ {arg} : MasterEntry(d, m_bankxor) # masterbank

\* djboyj has written 5 and selected entry 26
C10_Witness ==
    /\ gameset = "djboyj"
    /\ op = "mastercpu_bankswitch_w" /\ arg = 5
    /\ masterbank = 26

\* C6: every access that lies in a configured range of a core's map for its
\* direction is matched by exactly one binding.
C6_UniqueBinding ==
    (op = "dispatch" /\ map_hits # {}) => Cardinality(map_hits) = 1

\* C7: right after a state load every register that handlers mutate and read
\* back holds the value it had when the state was saved, so the handlers that
\* follow behave as they would have after the save.
C7_SaveCoversRegisters ==
    (op = "load_state") =>
        /\ m_bsmt_comms = saved.regs.bsmt_comms
        /\ m_bsmt_latch = saved.regs.bsmt_latch
        /\ \A d \in {0, 128} :
              ResetEdge(m_bsmt_reset, d) = ResetEdge(saved.regs.bsmt_reset, d)
        /\ m_videoreg = saved.regs.videoreg
        /\ m_scrollx = saved.regs.scrollx
        /\ m_scrolly = saved.regs.scrolly
        /\ m_beast_p0 = saved.regs.p0
        /\ m_beast_p1 = saved.regs.p1
        /\ m_beast_p2 = saved.regs.p2
        /\ m_beast_p3 = saved.regs.p3

\* C8: right after a machine reset videoreg, scrollx and scrolly are 0, the BEAST
\* port registers hold the values they started with and the slave bank is at
\* its initial entry, whatever handlers ran before.
C8_ResetDefaults ==
    (op = "machine_reset") =>
        /\ m_videoreg = 0 /\ m_scrollx = 0 /\ m_scrolly = 0
        /\ m_beast_p0 = poweron.p0
        /\ m_beast_p1 = poweron.p1
        /\ m_beast_p2 = poweron.p2
        /\ m_beast_p3 = poweron.p3
        /\ slavebank = 0

\* C9: the slave reset line starts clear (RUNNING); a beast_p3_w write asserts
\* it exactly when bit 1 goes from 1 to 0, clears it exactly when bit 1 goes from
\* 0 to 1, and leaves it alone when bit 1 does not change.
C9_ResetLineEdges ==
    [][ op' = "beast_p3_w" =>
          /\ (slave_reset = "CLEAR" /\ slave_reset' = "ASSERT")
                <=> (slave_reset = "CLEAR" /\ BIT(m_beast_p3, 1) = 1 /\ BIT(arg', 1) = 0)
          /\ (slave_reset = "ASSERT" /\ slave_reset' = "CLEAR")
                <=> (slave_reset = "ASSERT" /\ BIT(m_beast_p3, 1) = 0 /\ BIT(arg', 1) = 1)
          /\ BIT(m_beast_p3, 1) = BIT(arg', 1) => slave_reset' = slave_reset ]_vars

\* C11: in every state the BEAST's IRQ0 line is asserted exactly while beastlatch
\* is pending and the sound CPU's NMI line exactly while soundlatch is pending;
\* IRQ0 rises only in the slave's write to port 0x04 and falls only in a
\* beast_p0_w with bit 0 clear, NMI rises only in the slave's write to port 0x02
\* and falls only in the sound CPU's read of port 0x04; a read of slavelatch
\* moves neither line.
C11_LinesTrackPending ==
    /\ [](beast_irq0 = PendingLine(beastlatch) /\ sound_nmi = PendingLine(soundlatch))
    /\ [][ /\ (beast_irq0 = "CLEAR" /\ beast_irq0' = "ASSERT") => op' = "slave_port04_w"
           /\ op' = "slave_port04_w" => beast_irq0' = "ASSERT"
           /\ (beast_irq0 = "ASSERT" /\ beast_irq0' = "CLEAR")
                 => (op' = "beast_p0_w" /\ BIT(arg', 0) = 0)
           /\ (op' = "beast_p0_w" /\ BIT(arg', 0) = 0) => beast_irq0' = "CLEAR"
           /\ (sound_nmi = "CLEAR" /\ sound_nmi' = "ASSERT") => op' = "slave_port02_w"
           /\ op' = "slave_port02_w" => sound_nmi' = "ASSERT"
           /\ (sound_nmi = "ASSERT" /\ sound_nmi' = "CLEAR") => op' = "sound_port04_r"
           /\ op' = "sound_port04_r" => sound_nmi' = "CLEAR"
           /\ (slavelatch'.pending # slavelatch.pending /\ op' # "beast_p0_w")
                 => (beast_irq0' = beast_irq0 /\ sound_nmi' = sound_nmi) ]_vars

\* the BEAST has just acknowledged a command, which lowered IRQ0, while the sound
\* CPU's NMI is still up and slavelatch is pending
C11_Witness ==
    /\ op = "beast_p0_w" /\ BIT(arg, 0) = 0
    /\ lastw.beast # -1 /\ beast_irq0 = "CLEAR"
    /\ sound_nmi = "ASSERT" /\ soundlatch.pending
    /\ slavelatch.pending

\* C12: with s = bits 6..5 of the last value written to BEAST port 0, beast_p3_r
\* returns in bits 7, 6, 5, 4 the inverses of DSW2 bit s+4, DSW2 bit s, DSW1 bit
\* s+4 and DSW1 bit s; both DIP bytes are rebuilt from the reads for s = 0..3, and
\* flipping any one DIP switch changes exactly one (selector, bit) of those reads.
C12_DipLayout ==
    LET d1 == inputs.dsw1
        d2 == inputs.dsw2
        \* bits 7..4 of the read under selector s, as a nibble
        N(s, a, b) == DswNibble(s, Not8(a), Not8(b))
        Differ(a, b) == {x \in (0..3) \X (0..3) :
                            BIT(N(x[1], a, b), x[2]) # BIT(N(x[1], d1, d2), x[2])}
        Inv(s, b) == 1 - BIT(N(s, d1, d2), b - 4)
    IN  /\ (op = "beast_p3_r" /\ p0_w_prev # -1) =>
              LET s == (p0_w_prev \div 32) % 4
              IN  /\ BIT(ret, 7) = 1 - BIT(d2, s + 4)
                  /\ BIT(ret, 6) = 1 - BIT(d2, s)
                  /\ BIT(ret, 5) = 1 - BIT(d1, s + 4)
                  /\ BIT(ret, 4) = 1 - BIT(d1, s)
        /\ op = "beast_p3_r" =>
              /\ ret \div 16 = N(DswSelector(m_beast_p0), d1, d2)
              /\ d1 = (Inv(0, 4) * 1) + (Inv(1, 4) * 2) + (Inv(2, 4) * 4) + (Inv(3, 4) * 8)
                       + (Inv(0, 5) * 16) + (Inv(1, 5) * 32) + (Inv(2, 5) * 64)
                       + (Inv(3, 5) * 128)
              /\ d2 = (Inv(0, 6) * 1) + (Inv(1, 6) * 2) + (Inv(2, 6) * 4) + (Inv(3, 6) * 8)
                       + (Inv(0, 7) * 16) + (Inv(1, 7) * 32) + (Inv(2, 7) * 64)
                       + (Inv(3, 7) * 128)
              /\ \A k \in 0..7 :
                    /\ Cardinality(Differ(IF BIT(d1, k) = 0 THEN d1 + Pow2(k)
                                                            ELSE d1 - Pow2(k), d2)) = 1
                    /\ Cardinality(Differ(d1, IF BIT(d2, k) = 0 THEN d2 + Pow2(k)
                                                                ELSE d2 - Pow2(k))) = 1

\* with DSW1 = 0x04 and DSW2 = 0x40 the BEAST has selected s = 2 and read 0110 in
\* the high nibble
C12_Witness ==
    /\ op = "beast_p3_r" /\ p0_w_prev = 64
    /\ inputs.dsw1 = 4 /\ inputs.dsw2 = 64
    /\ ret \div 16 = 6

\* C13: beast_p0_r returns 0; beast_p1_r returns 0 and leaves beastlatch alone
\* when bit 0 of the last port-0 write is 1; beast_p2_r returns IN1, IN2, IN0 or
\* 0xff for the values 0, 1, 2, 3 of bits 3..2 of the last port-0 write; none of
\* these reads changes any state of the machine.
C13_DefaultReads ==
    [][ /\ op' = "beast_p0_r" => (ret' = 0 /\ djboyVars' = djboyVars)
        /\ (op' = "beast_p1_r" /\ p0_w_prev # -1 /\ BIT(p0_w_prev, 0) = 1)
              => (ret' = 0 /\ beastlatch' = beastlatch /\ djboyVars' = djboyVars)
        /\ (op' = "beast_p2_r" /\ p0_w_prev # -1)
              => /\ (p0_w_prev \div 4) % 4 = 0 => ret' = inputs.in1
                 /\ (p0_w_prev \div 4) % 4 = 1 => ret' = inputs.in2
                 /\ (p0_w_prev \div 4) % 4 = 2 => ret' = inputs.in0
                 /\ (p0_w_prev \div 4) % 4 = 3 => ret' = 255
                 /\ djboyVars' = djboyVars ]_vars

\* with buttons held down and a command pending, the BEAST has selected input
\* 3 and read 0xff from port 2
C13_Witness ==
    /\ op = "beast_p2_r" /\ p0_w_prev = 12
    /\ inputs.in0 = 251 /\ inputs.in1 = 238 /\ inputs.in2 = 223
    /\ ret = 255
    /\ beastlatch.pending

\* C14: a beast_p0_w that follows an earlier port-0 write compares against the
\* value of that write; it stores the current port-1 output value in slavelatch
\* (setting pending) exactly when bit 1 was 0 in that value and is 1 in the new
\* one, and otherwise leaves slavelatch as it was; no other handler writes
\* slavelatch.
C14_CopyOnRisingEdge ==
    [][ /\ (op' = "beast_p0_w" /\ p0_w_prev # -1) =>
              /\ m_beast_p0 = p0_w_prev
              /\ IF BIT(p0_w_prev, 1) = 0 /\ BIT(arg', 1) = 1
                 THEN /\ slavelatch' = [value |-> m_beast_p1, pending |-> TRUE]
                      /\ lastw'.slave = m_beast_p1
                 ELSE /\ slavelatch' = slavelatch
                      /\ lastw'.slave = lastw.slave
        /\ op' = "beast_p0_w" => p0_w_prev' = arg'
        /\ op' # "beast_p0_w" =>
              /\ p0_w_prev' = p0_w_prev
              /\ lastw'.slave = lastw.slave
              /\ slavelatch'.value = slavelatch.value
              /\ slavelatch.pending \/ ~slavelatch'.pending ]_vars

\* port 0 started with bit 1 set, so a write cleared it before the write of 0x02
\* that put the port-1 value 0x77 into slavelatch
C14_Witness ==
    /\ poweron.p0 = 255
    /\ op = "beast_p0_w" /\ arg = 2
    /\ m_beast_p1 = 119
    /\ slavelatch = [value |-> 119, pending |-> TRUE]
    /\ lastw.slave = 119

\* C15: a beast_p0_w clears a set pending flag of beastlatch only if the BEAST
\* has read the latch through beast_p1_r (with bit 0 of port 0 clear) since the
\* slave CPU last wrote it.
C15_NeverAcknowledgedUnread ==
    [][ (op' = "beast_p0_w" /\ beastlatch.pending /\ ~beastlatch'.pending)
            => beast_read ]_vars

\* C16: after a bsmt1_w the sound CPU's IRQ line is clear, after a
\* bsmt_ready_callback it is asserted, and no other handler of the board changes
\* it, so it stays clear from a bsmt1_w to the next callback and asserted from a
\* callback to the next bsmt1_w.
C16_ReadyHandshake ==
    [][ /\ op' = "bsmt1_w" => irq_line' = "CLEAR"
        /\ op' = "bsmt_ready_callback" => irq_line' = "ASSERT"
        /\ op' \notin {"bsmt1_w", "bsmt_ready_callback"} => irq_line' = irq_line ]_vars

\* the chip has signalled ready, and a reset write that reset the chip has left
\* the line asserted
C16_Witness ==
    /\ op = "bsmt_reset_w" /\ bsmt_resets = 1
    /\ chip_log = << <<"reset", 0>> >>
    /\ irq_line = "ASSERT"

\* C17: a bsmt1_w of byte d at offset o forwards to the chip the register number
\* o XOR 0xff and then the data word (h << 8) | d, h being the byte of the last
\* bsmt0_w, or 0 if there was none since the reset; a bsmt0_w forwards nothing and
\* changes only the stored high byte.
C17_ForwardedWord ==
    [][ /\ op' = "bsmt1_w" =>
              chip_log' = << <<"write_reg", 255 - offs'>>,
                             <<"write_data", (m_bsmt_latch * 256) + arg'>> >>
        /\ op' = "bsmt0_w" =>
              /\ chip_log' = << >>
              /\ m_bsmt_latch' = arg'
              /\ <<m_bsmt_reset, m_bsmt_comms, bsmt_resets, irq_line, firq_line>>'
                    = <<m_bsmt_reset, m_bsmt_comms, bsmt_resets, irq_line, firq_line>>
              /\ djboyVars' = djboyVars
        /\ op' = "device_reset" => m_bsmt_latch' = 0
        /\ op' \notin {"bsmt0_w", "device_reset"} => m_bsmt_latch' = m_bsmt_latch ]_vars

\* with the high byte 0x12 stored, 0x34 has been written at offset 1: register
\* 0xfe, data word 0x1234
C17_Witness ==
    /\ op = "bsmt1_w" /\ offs = 1 /\ arg = 52
    /\ m_bsmt_latch = 18
    /\ chip_log = << <<"write_reg", 254>>, <<"write_data", 4660>> >>

\* C18: in every state what beast_status_r and beast_p3_r would return mirror
\* each other: status bit 3 is set iff beastlatch is pending iff bit 2 of port 3
\* is clear, and status bit 2 is set iff slavelatch is not pending iff bit 3 of
\* port 3 is clear; the value each read returns has those bits, and neither
\* read changes the value or the pending flag of a latch.
C18_MirroredStatus ==
    /\ [](/\ (BIT(StatusByte, 3) = 1) <=> beastlatch.pending
          /\ beastlatch.pending <=> (BIT(P3Byte, 2) = 0)
          /\ (BIT(StatusByte, 2) = 1) <=> ~slavelatch.pending
          /\ ~slavelatch.pending <=> (BIT(P3Byte, 3) = 0)
          /\ op = "beast_status_r" =>
                /\ (BIT(ret, 3) = 1) <=> beastlatch.pending
                /\ (BIT(ret, 2) = 1) <=> ~slavelatch.pending
          /\ op = "beast_p3_r" =>
                /\ (BIT(ret, 2) = 0) <=> beastlatch.pending
                /\ (BIT(ret, 3) = 0) <=> ~slavelatch.pending)
    /\ [][ op' \in {"beast_status_r", "beast_p3_r"} =>
              <<soundlatch, beastlatch, slavelatch>>' = <<soundlatch, beastlatch, slavelatch>> ]_vars

\* with a command pending in beastlatch and slavelatch empty the BEAST has read
\* 0 in the low nibble of port 3 where the slave CPU would read 0x0c
C18_Witness ==
    /\ op = "beast_p3_r"
    /\ beastlatch.pending /\ ~slavelatch.pending
    /\ ret % 16 = 0
    /\ StatusByte = 12

====
